---------------------------- MODULE Spec2Model ----------------------------
(* Temporal Stochastic Unit (src/src/tsu.cpp): the symmetric race engine   *)
(* run_symmetric_race, as a state machine that is polled by a monotonic    *)
(* clock.  One race: Begin (thresholds, start time, markers), Poll (one    *)
(* iteration of the while loop), Extract (winner, latency, delta).         *)
EXTENDS Integers, Sequences, FiniteSets, TLC

VARIABLES
    pc,          \* "idle" | "loop" | "exit" | "done": position in run_symmetric_race
    now,         \* esp_timer_get_time(): the monotonic microsecond clock
    bias,        \* the float argument, as [m, e]: the value m * 2^e
    cpu_jitter,  \* uint32_t cpu_jitter
    target_a,    \* uint32_t target_a, as two 16-bit limbs [hi, lo]
    target_b,    \* uint32_t target_b, as two 16-bit limbs [hi, lo]
    start,       \* int64_t start
    current,     \* int64_t current of the latest loop iteration
    arrival_a,   \* uint32_t arrival_a (0: has not arrived yet)
    arrival_b,   \* uint32_t arrival_b (0: has not arrived yet)
    result,      \* the returned TSU_Result [winner, latency, delta]
    polled,      \* history: the loop body has run at least once
    fine,        \* history: number of fine clock steps taken in this race
    maxgap,      \* history: largest gap between two consecutive clock readings
    cross_a,     \* history: reading of the first poll with current >= target_a
    cross_b      \* history: reading of the first poll with current >= target_b

vars == <<pc, now, bias, cpu_jitter, target_a, target_b, start, current,
          arrival_a, arrival_b, result, polled, fine, maxgap, cross_a, cross_b>>

\* State of a second race loop that runs its two arrival checks in the order
\* B, A on the readings of the first.
VARIABLES
    alt,         \* its arrival markers [a, b]
    alt_pc,      \* its position
    alt_result   \* its TSU_Result

altvars == <<alt, alt_pc, alt_result>>

\* Two calls of run_symmetric_race one after the other, on a scripted clock.
VARIABLES
    seq_phase,   \* "first" | "second": which of the two calls is running
    seq_script,  \* the clock steps the polls of the first call observed
    seq_polls,   \* number of loop iterations of the running call
    seq_first    \* inputs, number of polls and result of the first call

seqvars == <<seq_phase, seq_script, seq_polls, seq_first>>

\* Two invocations of run_symmetric_race in two execution contexts.
VARIABLES
    conc,        \* the storage of the locals: one frame per storage location
    conc_pc,     \* position of each invocation
    conc_out,    \* the TSU_Result each invocation returned
    conc_ref,    \* each invocation run alone on the readings it observed
    conc_actor   \* history: the invocation that took the latest step

concvars == <<conc, conc_pc, conc_out, conc_ref, conc_actor>>

\* The background task noise_generator_task, and the race it runs beside.
VARIABLES
    noise_pc,    \* "none" | "run" | "blocked": the task's position
    noise_i,     \* int i of its for loop
    dummy,       \* volatile double dummy, as the number of terms added to it
    noise_round, \* history: passes of its while loop completed
    noise_mid,   \* history: the task took a step between two polls of a race
    quiet        \* the race without the task, on the readings of the race

noisevars == <<noise_pc, noise_i, dummy, noise_round, noise_mid, quiet>>

\* The driver app_main.
VARIABLES
    drv_pc,      \* "boot" | "create" | "header" | "loop" | "race" | "pause" | "halt"
    drv_b,       \* int b of the outer loop
    drv_i,       \* int i of the inner loop
    calls,       \* history: calls of run_symmetric_race made, per bias index
    printed      \* what was written to the output: header, records per bias
                 \* index, the latest record, DONE

drvvars == <<drv_pc, drv_b, drv_i, calls, printed>>

-----------------------------------------------------------------------------
(* Bounds of the model. *)

\* Largest raw cycle-counter sample offered to the entropy read.
MaxCycle == 9

\* Number of fine clock steps one race may observe.
MaxFine == 3

\* Clock steps between two readings: a stalled clock, a fine step, coarse
\* steps, and a jump over the whole timeout window.
FineStep == 1

\* Longest script of clock steps given to the scripted clock.
MaxScript == 4

\* Passes of the noise task's while loop that are followed.
MaxRound == 2

CoarseSteps == {250, 1000, 6000}

Steps == {0, FineStep} \cup CoarseSteps

\* Values of esp_timer_get_time() when a race is started.
StartTimes == {0, 123456}

-----------------------------------------------------------------------------
(* Program constants. *)

BASELINE == 1000

BIAS_SCALE == 500

TIMEOUT == 5000

JITTER_MOD == 5

\* Line 166: number of bias values swept.
NUM_BIASES == 5

\* Line 168: races per bias value.
RACES_PER_BIAS == 100

\* Lines 157 and 175: the two delays of app_main, in microseconds.
BOOT_DELAY_US == 2000000

PAUSE_US == 5000

\* Line 30: terms added to dummy in one pass of the noise task.
NOISE_TERMS == 50

\* winner codes of TSU_Result
A == 0

B == 1

\* "not yet" value of the history variables cross_a, cross_b (readings are >= 0)
None == 0 - 1

-----------------------------------------------------------------------------
(* Arithmetic of the C types involved. *)

Abs(x) == IF x < 0 THEN -x ELSE x

Sgn(x) == IF x < 0 THEN -1 ELSE IF x = 0 THEN 0 ELSE 1

Min(x, y) == IF x <= y THEN x ELSE y

Max(x, y) == IF x >= y THEN x ELSE y

RECURSIVE BitLen(_)
BitLen(n) == IF n = 0 THEN 0 ELSE 1 + BitLen(n \div 2)

\* n / 2^d rounded to the nearest integer, ties to even (IEEE-754 default).
RoundNearestEven(n, d) ==
    IF d = 0 THEN n
    ELSE LET q == n \div (2^d)
             r == n % (2^d)
             h == 2^(d - 1)
         IN  IF r > h \/ (r = h /\ q % 2 = 1) THEN q + 1 ELSE q

\* A float: [m, e] is the value m * 2^e with |m| <= 2^24.
F(m, e) == [m |-> m, e |-> e]

\* bias * 500 in single precision: the exact product, rounded to a 24-bit
\* significand.  500 = 125 * 2^2 keeps the exact product inside 31 bits.
FloatMul500(f) ==
    LET p == Abs(f.m) * (BIAS_SCALE \div 4)
        d == IF BitLen(p) > 24 THEN BitLen(p) - 24 ELSE 0
    IN  F(Sgn(f.m) * RoundNearestEven(p, d), f.e + 2 + d)

\* Mutant of the float-to-int conversion: rounding to the nearest integer.
IntCastRounds(f) ==
    IF f.e >= 0 THEN f.m * (2^f.e)
    ELSE Sgn(f.m) * ((Abs(f.m) + 2^(-f.e - 1)) \div (2^(-f.e)))

\* (int)x for a float x: truncation toward zero.
IntCast(f) ==
    IF f.e >= 0 THEN f.m * (2^f.e)
    ELSE Sgn(f.m) * (Abs(f.m) \div (2^(-f.e)))

\* Conversion of an int / int64_t value to uint32_t: reduction modulo 2^32,
\* kept as two 16-bit limbs.
U32(x) == [hi |-> (x \div 65536) % 65536, lo |-> x % 65536]

\* The value of a uint32_t below 2^31 as an integer.
U32Val(u) == u.hi * 65536 + u.lo

\* c >= t for an int64_t c >= 0 and a uint32_t t (t is promoted to int64_t).
GeI64U32(c, t) ==
    LET ch == c \div 65536
        cl == c % 65536
    IN  ch > t.hi \/ (ch = t.hi /\ cl >= t.lo)

-----------------------------------------------------------------------------
(* Inputs. *)

\* 0, 0.25, 0.5, 0.75, 0.95f (the driver's sweep), +-1/512 (bias*500 is not
\* an integer), -0.5, +-1 (the ends of the usual range), +-2 (a threshold of
\* exactly 0), +-2.5 (a negative threshold), 9 (a threshold above the timeout).
BiasSet ==
    { F(0, 0), F(1, -2), F(1, -1), F(3, -2), F(15938355, -24),
      F(1, -9), F(-1, -9), F(-1, -1), F(1, 0), F(-1, 0), F(1, 1), F(-1, 1),
      F(5, -1), F(-5, -1), F(9, 0) }

CycleCounts == 0..MaxCycle

NoResult == [winner |-> None, latency |-> None, delta |-> None]

-----------------------------------------------------------------------------
(* run_symmetric_race, piece by piece. *)

CpuJitter(cycles) == cycles % JITTER_MOD

\* Mutant of target_a: the jitter left out.
TargetANoJitter(f, jitter) == U32(BASELINE - IntCast(FloatMul500(f)))

TargetA(f, jitter) == U32(BASELINE - IntCast(FloatMul500(f)) + jitter)

TargetB(f) == U32(BASELINE + IntCast(FloatMul500(f)))

\* Mutant of the elapsed time: the subtraction of start forgotten.
ElapsedAbsolute(t, s) == t

\* current = esp_timer_get_time() - start
Elapsed(t, s) == t - s

\* Mutant of the arrival check: the marker is overwritten at every later poll.
ArriveAgain(arrival, cur, target) ==
    IF GeI64U32(cur, target) THEN U32Val(U32(cur)) ELSE arrival

\* Mutant of the arrival check: the timeout is tested before the arrivals, so
\* the timeout poll records nothing.
ArriveUnlessTimeout(arrival, cur, target) ==
    IF cur <= TIMEOUT /\ arrival = 0 /\ GeI64U32(cur, target)
    THEN U32Val(U32(cur)) ELSE arrival

\* One arrival check: if (arrival == 0 && current >= target) arrival = (uint32_t)current;
Arrive(arrival, cur, target) ==
    IF arrival = 0 /\ GeI64U32(cur, target) THEN U32Val(U32(cur)) ELSE arrival

\* Mutant of the loop exit: the break taken at current >= 5000.
LoopExitsEarly(cur, a, b) == cur >= TIMEOUT \/ ~(a = 0 \/ b = 0)

\* The loop is left by the break (current > 5000) or by the while condition.
LoopExits(cur, a, b) == cur > TIMEOUT \/ ~(a = 0 \/ b = 0)

\* Mutant of the decision: a strict comparison.
WinnerStrict(a, b) == IF a < b THEN A ELSE B

Winner(a, b) == IF a <= b THEN A ELSE B

\* Mutant of the latency: the loser's arrival time.
LatencyOfLoser(w, a, b) == IF w = A THEN b ELSE a

Latency(w, a, b) == IF w = A THEN a ELSE b

Delta(a, b) == IF a > b THEN a - b ELSE b - a

\* What an observer of the clock notes: the first reading at or above a target.
Observe(cross, cur, target) ==
    IF cross = None /\ GeI64U32(cur, target) THEN cur ELSE cross

\* The two arrival checks as steps on the pair of markers, and the loop body
\* as their composition, in the order of the code and in the other order.
Markers(a, b) == [a |-> a, b |-> b]

\* Mutant of the first check: an else branch of the other check.
CheckAElse(m, cur, target) ==
    IF m.b # 0 /\ m.b = cur THEN m ELSE [m EXCEPT !.a = Arrive(m.a, cur, target)]

\* Lines 105-107.
CheckA(m, cur, target) == [m EXCEPT !.a = Arrive(m.a, cur, target)]

\* Lines 112-114.
CheckB(m, cur, target) == [m EXCEPT !.b = Arrive(m.b, cur, target)]

ScanAB(m, cur, ta, tb) == CheckB(CheckA(m, cur, ta), cur, tb)

ScanBA(m, cur, ta, tb) == CheckA(CheckB(m, cur, tb), cur, ta)

ResultOf(m) ==
    [winner  |-> Winner(m.a, m.b),
     latency |-> Latency(Winner(m.a, m.b), m.a, m.b),
     delta   |-> Delta(m.a, m.b)]

-----------------------------------------------------------------------------
(* The state machine. *)

allvars == <<vars, altvars, seqvars, concvars, noisevars, drvvars>>

Invocations == {1, 2}

\* The locals of one invocation (lines 56-97).
NoFrame ==
    [bias |-> F(0, 0), cpu_jitter |-> 0, target_a |-> U32(0), target_b |-> U32(0),
     start |-> 0, current |-> 0, arrival_a |-> 0, arrival_b |-> 0]

NoSolo ==
    [target_a |-> U32(0), target_b |-> U32(0), start |-> 0,
     m |-> Markers(0, 0), pc |-> "idle", result |-> NoResult]

NoRecord == [bias |-> None, result |-> NoResult]

DrvIdle ==
    /\ drv_pc = "boot"
    /\ drv_b = 0
    /\ drv_i = 0
    /\ calls = [k \in 1..NUM_BIASES |-> 0]
    /\ printed = [header |-> FALSE, records |-> [k \in 1..NUM_BIASES |-> 0],
                  last |-> NoRecord, done |-> FALSE]

NoiseIdle ==
    /\ noise_pc = "none"
    /\ noise_i = 0
    /\ dummy = 0
    /\ noise_round = 0
    /\ noise_mid = FALSE
    /\ quiet = NoSolo

ConcIdle ==
    /\ conc = [i \in Invocations |-> NoFrame]
    /\ conc_pc = [i \in Invocations |-> "idle"]
    /\ conc_out = [i \in Invocations |-> NoResult]
    /\ conc_ref = [i \in Invocations |-> NoSolo]
    /\ conc_actor = 0

NoRun == [bias |-> None, jitter |-> None, polls |-> None, result |-> NoResult]

SeqIdle ==
    /\ seq_phase = "first"
    /\ seq_script = <<>>
    /\ seq_polls = 0
    /\ seq_first = NoRun

AltIdle ==
    /\ alt = Markers(0, 0)
    /\ alt_pc = "idle"
    /\ alt_result = NoResult

RaceInit ==
    /\ pc = "idle"
    /\ now \in StartTimes
    /\ bias = F(0, 0)
    /\ cpu_jitter = 0
    /\ target_a = U32(0)
    /\ target_b = U32(0)
    /\ start = 0
    /\ current = 0
    /\ arrival_a = 0
    /\ arrival_b = 0
    /\ result = NoResult
    /\ polled = FALSE
    /\ fine = 0
    /\ maxgap = 0
    /\ cross_a = None
    /\ cross_b = None

\* Mutant of Begin: the arrival markers keep their values between calls, as
\* function-static variables would.
BeginStatic(f, cycles) ==
    /\ pc = "idle"
    /\ bias' = f
    /\ cpu_jitter' = CpuJitter(cycles)
    /\ target_a' = TargetA(f, CpuJitter(cycles))
    /\ target_b' = TargetB(f)
    /\ start' = now
    /\ pc' = "loop"
    /\ UNCHANGED <<arrival_a, arrival_b>>
    /\ UNCHANGED <<now, current, result, polled, fine, maxgap, cross_a, cross_b>>

\* Lines 43-80: entropy sample, thresholds, start time, arrival markers.
Begin(f, cycles) ==
    /\ pc = "idle"
    /\ bias' = f
    /\ cpu_jitter' = CpuJitter(cycles)
    /\ target_a' = TargetA(f, CpuJitter(cycles))
    /\ target_b' = TargetB(f)
    /\ start' = now
    /\ arrival_a' = 0
    /\ arrival_b' = 0
    /\ pc' = "loop"
    /\ UNCHANGED <<now, current, result, polled, fine, maxgap, cross_a, cross_b>>

\* Lines 93-120: one iteration of the race loop, the clock having advanced
\* by step since its last reading.
Poll(step) ==
    /\ pc = "loop"
    /\ step = FineStep => fine < MaxFine
    /\ now' = now + step
    /\ current' = Elapsed(now', start)
    /\ arrival_a' = Arrive(arrival_a, current', target_a)
    /\ arrival_b' = Arrive(arrival_b, current', target_b)
    /\ pc' = IF LoopExits(current', arrival_a', arrival_b') THEN "exit" ELSE "loop"
    /\ polled' = TRUE
    /\ fine' = IF step = FineStep THEN fine + 1 ELSE fine
    /\ maxgap' = Max(maxgap, step)
    /\ cross_a' = Observe(cross_a, current', target_a)
    /\ cross_b' = Observe(cross_b, current', target_b)
    /\ UNCHANGED <<bias, cpu_jitter, target_a, target_b, start, result>>

\* Lines 127-152: decision extraction and return.
Extract ==
    /\ pc = "exit"
    /\ result' = [winner  |-> Winner(arrival_a, arrival_b),
                  latency |-> Latency(Winner(arrival_a, arrival_b), arrival_a, arrival_b),
                  delta   |-> Delta(arrival_a, arrival_b)]
    /\ pc' = "done"
    /\ UNCHANGED <<now, bias, cpu_jitter, target_a, target_b, start, current,
                   arrival_a, arrival_b, polled, fine, maxgap, cross_a, cross_b>>

BeginAny == \E f \in BiasSet, cycles \in CycleCounts : Begin(f, cycles)

PollAny == \E step \in Steps : Poll(step)

PollCoarse == \E step \in CoarseSteps : Poll(step)

\* One race, with nothing else running.
Init == RaceInit /\ AltIdle /\ SeqIdle /\ ConcIdle /\ NoiseIdle /\ DrvIdle

\* What is not part of a single race.
besideRace == <<altvars, seqvars, concvars, noisevars, drvvars>>

Next ==
    \/ BeginAny /\ UNCHANGED besideRace
    \/ PollAny /\ UNCHANGED besideRace
    \/ Extract /\ UNCHANGED besideRace

Spec == Init /\ [][Next]_allvars

\* The clock keeps advancing and the busy loop keeps polling it: a coarse
\* step is eventually observed while the loop runs, and the function returns.
FairSpec == Spec /\ WF_vars(PollCoarse) /\ WF_vars(Extract)

-----------------------------------------------------------------------------
(* The race loop with its checks in the order B, A, run beside the race on *)
(* the same readings.                                                      *)

OrderBegin(f, cycles) ==
    /\ Begin(f, cycles)
    /\ alt' = Markers(0, 0)
    /\ alt_pc' = "loop"
    /\ UNCHANGED alt_result

OrderPoll(step) ==
    /\ Poll(step)
    /\ alt_pc = "loop"
    /\ alt' = ScanBA(alt, current', target_a, target_b)
    /\ alt_pc' = IF LoopExits(current', alt'.a, alt'.b) THEN "exit" ELSE "loop"
    /\ UNCHANGED alt_result

OrderExtract ==
    /\ Extract
    /\ alt_pc = "exit"
    /\ alt_result' = ResultOf(alt)
    /\ alt_pc' = "done"
    /\ UNCHANGED alt

OrderBeginAny == \E f \in BiasSet, cycles \in CycleCounts : OrderBegin(f, cycles)

OrderPollAny == \E step \in Steps : OrderPoll(step)

\* What is not part of the two loops.
besideOrder == <<seqvars, concvars, noisevars, drvvars>>

OrderNext ==
    \/ OrderBeginAny /\ UNCHANGED besideOrder
    \/ OrderPollAny /\ UNCHANGED besideOrder
    \/ OrderExtract /\ UNCHANGED besideOrder

OrderSpec == Init /\ [][OrderNext]_allvars

-----------------------------------------------------------------------------
(* Two calls in sequence on a scripted clock: the first call reads a script *)
(* of clock steps, the function returns, the clock is rewound to its first  *)
(* reading and the second call reads the same script.  The returned frame   *)
(* keeps its last contents: the second call finds them where its locals go. *)

\* Biases offered to the two calls.
SeqBiases == {F(0, 0), F(15938355, -24), F(-1, -9), F(-1, 1)}

SeqBegin(f, cycles) ==
    /\ Begin(f, cycles)
    /\ seq_polls' = 0
    /\ UNCHANGED <<seq_phase, seq_script, seq_first>>

\* The first call draws the steps of the script; the second call is given
\* them again, and no reading beyond them.
SeqPoll(step) ==
    /\ Poll(step)
    /\ IF seq_phase = "first"
          THEN /\ Len(seq_script) < MaxScript
               /\ seq_script' = Append(seq_script, step)
          ELSE /\ seq_polls < Len(seq_script)
               /\ step = seq_script[seq_polls + 1]
               /\ UNCHANGED seq_script
    /\ seq_polls' = seq_polls + 1
    /\ UNCHANGED <<seq_phase, seq_first>>

SeqExtract ==
    /\ Extract
    /\ UNCHANGED seqvars

\* Line 152, first call: the function returns, its frame is dead and keeps
\* what was in it; the scripted clock goes back to its first reading.
SeqReturn ==
    /\ pc = "done"
    /\ seq_phase = "first"
    /\ pc' = "idle"
    /\ now' = start
    /\ seq_phase' = "second"
    /\ seq_first' = [bias |-> bias, jitter |-> cpu_jitter,
                     polls |-> seq_polls, result |-> result]
    /\ polled' = FALSE
    /\ fine' = 0
    /\ maxgap' = 0
    /\ cross_a' = None
    /\ cross_b' = None
    /\ UNCHANGED <<bias, cpu_jitter, target_a, target_b, start, current,
                   arrival_a, arrival_b, result, seq_script, seq_polls>>

\* The second call is given the bias of the first and an entropy sample of
\* its own.
SeqBeginAny ==
    \E f \in SeqBiases, cycles \in CycleCounts :
        /\ seq_phase = "second" => f = seq_first.bias
        /\ SeqBegin(f, cycles)

SeqPollAny == \E step \in Steps : SeqPoll(step)

\* What is not part of the two calls.
besideSeq == <<altvars, concvars, noisevars, drvvars>>

SeqNext ==
    \/ SeqBeginAny /\ UNCHANGED besideSeq
    \/ SeqPollAny /\ UNCHANGED besideSeq
    \/ SeqExtract /\ UNCHANGED besideSeq
    \/ SeqReturn /\ UNCHANGED besideSeq

SeqSpec == Init /\ [][SeqNext]_allvars

-----------------------------------------------------------------------------
(* Two invocations in two execution contexts, their steps interleaved, both *)
(* reading the one clock.  The locals of run_symmetric_race have automatic  *)
(* storage: every invocation has a frame of its own.                        *)

\* Mutant of Frame: the locals have static storage, one frame for all calls.
FrameShared(i) == 1

\* The storage location of the locals of invocation i.
Frame(i) == i

\* Biases offered to the two invocations.
ConcBiases == {F(0, 0), F(15938355, -24)}

\* Raw cycle-counter samples offered to the two invocations.
ConcCycles == {0, 3, 7}

\* Clock steps between two readings, by whichever invocation.
ConcSteps == {0, FineStep, 1000, 6000}

\* Everything of the single race but the clock and its count of fine steps.
racelocals ==
    <<pc, bias, cpu_jitter, target_a, target_b, start, current,
      arrival_a, arrival_b, result, polled, maxgap, cross_a, cross_b>>

\* Lines 43-80 in the context of invocation i.
ConcBegin(i, f, cycles) ==
    /\ conc_pc[i] = "idle"
    /\ conc' = [conc EXCEPT ![Frame(i)] =
                   [bias |-> f,
                    cpu_jitter |-> CpuJitter(cycles),
                    target_a |-> TargetA(f, CpuJitter(cycles)),
                    target_b |-> TargetB(f),
                    start |-> now,
                    current |-> @.current,
                    arrival_a |-> 0,
                    arrival_b |-> 0]]
    /\ conc_pc' = [conc_pc EXCEPT ![i] = "loop"]
    /\ conc_ref' = [conc_ref EXCEPT ![i] =
                       [target_a |-> TargetA(f, CpuJitter(cycles)),
                        target_b |-> TargetB(f),
                        start |-> now,
                        m |-> Markers(0, 0),
                        pc |-> "loop",
                        result |-> NoResult]]
    /\ conc_actor' = i
    /\ UNCHANGED <<conc_out, now, fine, racelocals>>

\* Lines 93-120 in the context of invocation i, the clock having advanced by
\* step since anyone read it.
ConcPoll(i, step) ==
    /\ conc_pc[i] = "loop"
    /\ step = FineStep => fine < MaxFine
    /\ now' = now + step
    /\ fine' = IF step = FineStep THEN fine + 1 ELSE fine
    /\ LET fr  == conc[Frame(i)]
           cur == Elapsed(now', fr.start)
           a   == Arrive(fr.arrival_a, cur, fr.target_a)
           b   == Arrive(fr.arrival_b, cur, fr.target_b)
       IN  /\ conc' = [conc EXCEPT ![Frame(i)] =
                          [fr EXCEPT !.current = cur, !.arrival_a = a, !.arrival_b = b]]
           /\ conc_pc' = [conc_pc EXCEPT ![i] =
                             IF LoopExits(cur, a, b) THEN "exit" ELSE "loop"]
    /\ LET r   == conc_ref[i]
           cur == Elapsed(now', r.start)
           m   == ScanAB(r.m, cur, r.target_a, r.target_b)
       IN  conc_ref' = [conc_ref EXCEPT ![i] =
                          [r EXCEPT !.m = m,
                                    !.pc = IF LoopExits(cur, m.a, m.b) THEN "exit" ELSE "loop"]]
    /\ conc_actor' = i
    /\ UNCHANGED <<conc_out, racelocals>>

\* Lines 127-152 in the context of invocation i.
ConcExtract(i) ==
    /\ conc_pc[i] = "exit"
    /\ conc_out' = [conc_out EXCEPT ![i] =
                       ResultOf(Markers(conc[Frame(i)].arrival_a, conc[Frame(i)].arrival_b))]
    /\ conc_pc' = [conc_pc EXCEPT ![i] = "done"]
    /\ conc_ref' = [conc_ref EXCEPT ![i] =
                       [conc_ref[i] EXCEPT !.result = ResultOf(conc_ref[i].m),
                                           !.pc = "done"]]
    /\ conc_actor' = i
    /\ UNCHANGED <<conc, now, fine, racelocals>>

\* The invocations are numbered in the order of their calls.
ConcBeginAny ==
    \E i \in Invocations, f \in ConcBiases, cycles \in ConcCycles :
        /\ \A j \in Invocations : j < i => conc_pc[j] # "idle"
        /\ ConcBegin(i, f, cycles)

ConcPollAny == \E i \in Invocations, step \in ConcSteps : ConcPoll(i, step)

ConcExtractAny == \E i \in Invocations : ConcExtract(i)

\* What is not part of the two invocations.
besideConc == <<altvars, seqvars, noisevars, drvvars>>

ConcNext ==
    \/ ConcBeginAny /\ UNCHANGED besideConc
    \/ ConcPollAny /\ UNCHANGED besideConc
    \/ ConcExtractAny /\ UNCHANGED besideConc

\* Both are called after the clock was started.
ConcInit == Init /\ now = 0

ConcSpec == ConcInit /\ [][ConcNext]_allvars

-----------------------------------------------------------------------------
(* A race beside the noise task.  The task runs on the other core; what its *)
(* work costs the race in time is part of the step by which the clock has   *)
(* advanced when the race polls it next.                                    *)

\* Inputs of the race that runs beside the task.
NoiseBiases == {F(0, 0), F(15938355, -24)}

NoiseCycles == {0, 3}

NoiseSteps == {FineStep, 1000, 6000}

\* Line 160: app_main creates the task; line 28: its local dummy.
NoiseStart ==
    /\ noise_pc = "none"
    /\ noise_pc' = "run"
    /\ noise_i' = 0
    /\ dummy' = 0
    /\ UNCHANGED <<noise_round, noise_mid, quiet, vars>>

\* Mutant of NoiseCompute: the accumulator is the race's arrival marker.
NoiseComputeShared ==
    /\ noise_pc = "run"
    /\ noise_i < NOISE_TERMS
    /\ arrival_a' = arrival_a + 1
    /\ noise_i' = noise_i + 1
    /\ noise_mid' = (noise_mid \/ (pc = "loop" /\ polled))
    /\ UNCHANGED <<noise_pc, dummy, noise_round, quiet>>
    /\ UNCHANGED <<pc, now, bias, cpu_jitter, target_a, target_b, start, current,
                   arrival_b, result, polled, fine, maxgap, cross_a, cross_b>>

\* Lines 30-32: one iteration of the for loop.
NoiseCompute ==
    /\ noise_pc = "run"
    /\ noise_i < NOISE_TERMS
    /\ dummy' = dummy + 1
    /\ noise_i' = noise_i + 1
    /\ noise_mid' = (noise_mid \/ (pc = "loop" /\ polled))
    /\ UNCHANGED <<noise_pc, noise_round, quiet, vars>>

\* Line 33: the for loop is over, the task blocks for one tick.
NoiseDelay ==
    /\ noise_pc = "run"
    /\ noise_i = NOISE_TERMS
    /\ noise_pc' = "blocked"
    /\ noise_round' = noise_round + 1
    /\ UNCHANGED <<noise_i, dummy, noise_mid, quiet, vars>>

\* Lines 29-30: the tick has passed, the next pass of the while loop begins.
NoiseWake ==
    /\ noise_pc = "blocked"
    /\ noise_round < MaxRound
    /\ noise_pc' = "run"
    /\ noise_i' = 0
    /\ UNCHANGED <<dummy, noise_round, noise_mid, quiet, vars>>

\* The race, started after the task (line 160 precedes line 169), and the
\* same race without the task on the same readings.
NoiseBegin(f, cycles) ==
    /\ noise_pc # "none"
    /\ Begin(f, cycles)
    /\ quiet' = [target_a |-> TargetA(f, CpuJitter(cycles)),
                 target_b |-> TargetB(f),
                 start |-> now,
                 m |-> Markers(0, 0),
                 pc |-> "loop",
                 result |-> NoResult]
    /\ UNCHANGED <<noise_pc, noise_i, dummy, noise_round, noise_mid>>

NoisePoll(step) ==
    /\ Poll(step)
    /\ quiet.pc = "loop"
    /\ LET cur == Elapsed(now', quiet.start)
           m   == ScanAB(quiet.m, cur, quiet.target_a, quiet.target_b)
       IN  quiet' = [quiet EXCEPT !.m = m,
                                  !.pc = IF LoopExits(cur, m.a, m.b) THEN "exit" ELSE "loop"]
    /\ UNCHANGED <<noise_pc, noise_i, dummy, noise_round, noise_mid>>

NoiseExtract ==
    /\ Extract
    /\ quiet.pc = "exit"
    /\ quiet' = [quiet EXCEPT !.result = ResultOf(quiet.m), !.pc = "done"]
    /\ UNCHANGED <<noise_pc, noise_i, dummy, noise_round, noise_mid>>

NoiseBeginAny == \E f \in NoiseBiases, cycles \in NoiseCycles : NoiseBegin(f, cycles)

NoisePollAny == \E step \in NoiseSteps : NoisePoll(step)

\* What is not part of the task and the race beside it.
besideNoise == <<altvars, seqvars, concvars, drvvars>>

NoiseNext ==
    \/ NoiseStart /\ UNCHANGED besideNoise
    \/ NoiseCompute /\ UNCHANGED besideNoise
    \/ NoiseDelay /\ UNCHANGED besideNoise
    \/ NoiseWake /\ UNCHANGED besideNoise
    \/ NoiseBeginAny /\ UNCHANGED besideNoise
    \/ NoisePollAny /\ UNCHANGED besideNoise
    \/ NoiseExtract /\ UNCHANGED besideNoise

NoiseSpec == Init /\ [][NoiseNext]_allvars

-----------------------------------------------------------------------------
(* The driver app_main: it waits, creates the noise task, prints the header *)
(* and sweeps the bias values, one race, one record and one pause at a time. *)

\* Line 164.
test_biases == <<F(0, 0), F(1, -2), F(1, -1), F(3, -2), F(15938355, -24)>>

\* Clock steps between two readings of a race of the sweep: one step, below
\* every threshold of the sweep and more than half of each, so that every
\* race takes two polls and the clock of the sweep is a function of the
\* number of races run.
DrvSteps == {750}

\* Raw cycle-counter samples offered to the races of the sweep.
DrvCycles == {0, 3}

\* Mutant of the inner loop test.
InnerLoopRunsInclusive(i) == i <= RACES_PER_BIAS

\* Line 168: i < 100.
InnerLoopRuns(i) == i < RACES_PER_BIAS

\* Line 166: b < 5.
OuterLoopRuns(b) == b < NUM_BIASES

\* What app_main leaves alone while it is not inside a race.
raceframe ==
    <<pc, bias, cpu_jitter, target_a, target_b, start, current,
      arrival_a, arrival_b, result, polled, fine, maxgap, cross_a, cross_b>>

taskvars == <<noise_i, dummy, noise_round, noise_mid, quiet>>

\* Line 157.
DrvBoot ==
    /\ drv_pc = "boot"
    /\ now' = now + BOOT_DELAY_US
    /\ drv_pc' = "create"
    /\ UNCHANGED <<drv_b, drv_i, calls, printed, raceframe, noisevars>>

\* Line 160.
DrvCreate ==
    /\ drv_pc = "create"
    /\ noise_pc' = "run"
    /\ drv_pc' = "header"
    /\ UNCHANGED <<drv_b, drv_i, calls, printed, vars, taskvars>>

\* Line 162.
DrvHeader ==
    /\ drv_pc = "header"
    /\ printed' = [printed EXCEPT !.header = TRUE]
    /\ drv_b' = 0
    /\ drv_i' = 0
    /\ drv_pc' = "loop"
    /\ UNCHANGED <<calls, vars, noisevars>>

\* Lines 166-169: both loop tests pass, run_symmetric_race is called.
DrvCall(cycles) ==
    /\ drv_pc = "loop"
    /\ OuterLoopRuns(drv_b)
    /\ InnerLoopRuns(drv_i)
    /\ Begin(test_biases[drv_b + 1], cycles)
    /\ calls' = [calls EXCEPT ![drv_b + 1] = @ + 1]
    /\ drv_pc' = "race"
    /\ UNCHANGED <<drv_b, drv_i, printed, noisevars>>

\* Lines 93-120, inside the call.
DrvPoll(step) ==
    /\ drv_pc = "race"
    /\ Poll(step)
    /\ UNCHANGED <<drvvars, noisevars>>

\* Lines 127-152, inside the call.
DrvExtract ==
    /\ drv_pc = "race"
    /\ Extract
    /\ UNCHANGED <<drvvars, noisevars>>

\* Lines 169-173: the call has returned, the record is printed.
DrvPrint ==
    /\ drv_pc = "race"
    /\ pc = "done"
    /\ printed' = [printed EXCEPT !.records[drv_b + 1] = @ + 1,
                                  !.last = [bias |-> test_biases[drv_b + 1],
                                            result |-> result]]
    /\ drv_pc' = "pause"
    /\ pc' = "idle"
    /\ polled' = FALSE
    /\ fine' = 0
    /\ maxgap' = 0
    /\ cross_a' = None
    /\ cross_b' = None
    /\ UNCHANGED <<now, bias, cpu_jitter, target_a, target_b, start, current,
                   arrival_a, arrival_b, result>>
    /\ UNCHANGED <<drv_b, drv_i, calls, noisevars>>

\* Lines 175 and 168: the pause, then i++.
DrvPause ==
    /\ drv_pc = "pause"
    /\ now' = now + PAUSE_US
    /\ drv_i' = drv_i + 1
    /\ drv_pc' = "loop"
    /\ UNCHANGED <<drv_b, calls, printed, raceframe, noisevars>>

\* Lines 168 and 166: the inner loop is over, b++.
DrvNextBias ==
    /\ drv_pc = "loop"
    /\ OuterLoopRuns(drv_b)
    /\ ~InnerLoopRuns(drv_i)
    /\ drv_b' = drv_b + 1
    /\ drv_i' = 0
    /\ UNCHANGED <<drv_pc, calls, printed, vars, noisevars>>

\* Line 178: the outer loop is over, DONE is printed.
DrvDone ==
    /\ drv_pc = "loop"
    /\ ~OuterLoopRuns(drv_b)
    /\ printed' = [printed EXCEPT !.done = TRUE]
    /\ drv_pc' = "halt"
    /\ UNCHANGED <<drv_b, drv_i, calls, vars, noisevars>>

DrvCallAny == \E cycles \in DrvCycles : DrvCall(cycles)

DrvPollAny == \E step \in DrvSteps : DrvPoll(step)

\* What is not part of app_main, its races and the task it creates.
besideDrv == <<altvars, seqvars, concvars>>

DrvNext ==
    \/ DrvBoot /\ UNCHANGED besideDrv
    \/ DrvCreate /\ UNCHANGED besideDrv
    \/ DrvHeader /\ UNCHANGED besideDrv
    \/ DrvCallAny /\ UNCHANGED besideDrv
    \/ DrvPollAny /\ UNCHANGED besideDrv
    \/ DrvExtract /\ UNCHANGED besideDrv
    \/ DrvPrint /\ UNCHANGED besideDrv
    \/ DrvPause /\ UNCHANGED besideDrv
    \/ DrvNextBias /\ UNCHANGED besideDrv
    \/ DrvDone /\ UNCHANGED besideDrv

DrvSpec == Init /\ [][DrvNext]_allvars

\* app_main keeps running, and so does the clock its races poll.
FairDrvSpec == DrvSpec /\ WF_allvars(DrvNext)

-----------------------------------------------------------------------------
(* Vocabulary of the properties. *)

\* A uint32_t threshold that is below 2^31, so that U32Val gives its value.
Small(t) == t.hi < 32768

\* The threshold as the unbounded integer the expression of line 70 / 71 denotes.
SignedTargetA == BASELINE - IntCast(FloatMul500(bias)) + cpu_jitter

SignedTargetB == BASELINE + IntCast(FloatMul500(bias))

\* A uint32_t bit pattern read as a two's complement int.
AsInt32(u) == IF u.hi < 32768 THEN U32Val(u) ELSE (u.hi - 65536) * 65536 + u.lo

\* round(bias * 500) on the exact product, halves away from zero.
RoundedProduct(f) ==
    LET n == Abs(f.m) * (BIAS_SCALE \div 4)
        k == f.e + 2
    IN  IF k >= 0 THEN Sgn(f.m) * n * (2^k)
        ELSE Sgn(f.m) * ((n + 2^(-k - 1)) \div (2^(-k)))

\* t is x truncated toward zero, for the float x = [m, e].
IsTruncationOf(t, x) ==
    IF x.e >= 0 THEN t = x.m * (2^x.e)
    ELSE /\ Sgn(t) * Sgn(x.m) >= 0
         /\ Abs(t) * (2^(-x.e)) <= Abs(x.m)
         /\ Abs(x.m) < (Abs(t) + 1) * (2^(-x.e))

\* No reading of the race lay at or above a threshold and inside the timeout
\* window: whatever was crossed was crossed by a reading above 5000.
NoCrossInWindow ==
    /\ cross_a = None \/ cross_a > TIMEOUT
    /\ cross_b = None \/ cross_b > TIMEOUT

-----------------------------------------------------------------------------
(* C1..C10. *)

\* C1: the declared winner is a path whose threshold was crossed during the
\* race and whose arrival was recorded, and the other path did not cross its
\* threshold at a strictly earlier poll.
C1_WinnerCrossedFirst ==
    pc = "done" =>
        LET w  == result.winner
            cw == IF w = A THEN cross_a ELSE cross_b
            co == IF w = A THEN cross_b ELSE cross_a
            aw == IF w = A THEN arrival_a ELSE arrival_b
        IN  /\ cw # None
            /\ aw # 0
            /\ ~(co # None /\ co < cw)

\* C2: a path whose computed threshold is zero or negative has its arrival
\* recorded by the first poll, at that poll's elapsed time.
C2_NonPositiveThresholdFirstPoll ==
    [][(pc = "loop" /\ ~polled /\ polled') =>
          /\ SignedTargetA <= 0 => (cross_a' = current' /\ arrival_a' = current')
          /\ SignedTargetB <= 0 => (cross_b' = current' /\ arrival_b' = current')]_vars

\* C3: at return, latency is the smaller of the two arrival markers and
\* delta their absolute difference, timeout or not.
C3_LatencyIsMinDeltaIsAbs ==
    pc = "done" =>
        /\ result.latency = Min(arrival_a, arrival_b)
        /\ result.delta = Abs(arrival_a - arrival_b)

C3_Witness ==
    /\ pc = "done"
    /\ current > TIMEOUT
    /\ arrival_a > 0
    /\ arrival_b = 0
    /\ result.delta = arrival_a

\* C4: the returned latency is at least 0 and at most the timeout plus the
\* largest gap between two consecutive clock readings of the race, the
\* reading taken for start being the first of them.
C4_LatencyBounded ==
    pc = "done" => (0 <= result.latency /\ result.latency <= TIMEOUT + maxgap)

C4_Witness ==
    /\ pc = "done"
    /\ current > TIMEOUT
    /\ result.latency = current
    /\ maxgap < current

\* C5: the race loop terminates; it is left by the first poll that sets both
\* markers or reads more than 5000, and nothing is polled after that.
C5_LoopTerminates ==
    /\ (pc = "loop") ~> (pc = "done")
    /\ [](pc = "loop" => (arrival_a = 0 \/ arrival_b = 0) /\ current <= TIMEOUT)
    /\ [][/\ pc = "loop" =>
               (pc' = "exit" <=>
                   (current' > TIMEOUT \/ (arrival_a' # 0 /\ arrival_b' # 0)))
          /\ pc \in {"exit", "done"} =>
               UNCHANGED <<now, current, arrival_a, arrival_b>>]_vars

C5_Witness ==
    /\ pc = "done"
    /\ current <= TIMEOUT
    /\ arrival_a # 0
    /\ arrival_b # 0
    /\ arrival_a # arrival_b

\* C6 as claimed: with no threshold crossed inside the timeout window, both
\* markers are 0 at return and the result is winner A, latency 0, delta 0.
\* Stated for the thresholds that are below 2^31, which leaves the wrapped
\* thresholds of C2 out of this statement.
C6_TimeoutLeavesSentinels ==
    (pc = "done" /\ NoCrossInWindow /\ Small(target_a) /\ Small(target_b)) =>
        /\ arrival_a = 0
        /\ arrival_b = 0
        /\ result = [winner |-> A, latency |-> 0, delta |-> 0]

\* C6 as amended: with no threshold crossed inside the timeout window the loop
\* is left by the timeout poll, which records its reading for every path whose
\* threshold it has reached and leaves the other markers 0; with both
\* thresholds reached the result is winner A, latency that reading, delta 0,
\* and with none reached it is winner A, latency 0, delta 0.
C6_TimeoutPollRecords ==
    /\ (pc = "loop") ~> (pc = "done")
    /\ []((pc = "done" /\ NoCrossInWindow) =>
            /\ current > TIMEOUT
            /\ arrival_a = (IF GeI64U32(current, target_a) THEN current ELSE 0)
            /\ arrival_b = (IF GeI64U32(current, target_b) THEN current ELSE 0)
            /\ (GeI64U32(current, target_a) /\ GeI64U32(current, target_b)) =>
                   result = [winner |-> A, latency |-> current, delta |-> 0]
            /\ (~GeI64U32(current, target_a) /\ ~GeI64U32(current, target_b)) =>
                   result = [winner |-> A, latency |-> 0, delta |-> 0])

C6_Witness ==
    /\ pc = "done"
    /\ NoCrossInWindow
    /\ Small(target_a) /\ U32Val(target_a) <= TIMEOUT
    /\ Small(target_b) /\ U32Val(target_b) <= TIMEOUT
    /\ result.latency > TIMEOUT
    /\ result.delta = 0

\* C7 as claimed: target_a = 1000 - round(bias*500) + jitter and
\* target_b = 1000 + round(bias*500), jitter in 0..4.
C7_TargetsRounded ==
    pc # "idle" =>
        /\ cpu_jitter \in 0..4
        /\ target_a = U32(BASELINE - RoundedProduct(bias) + cpu_jitter)
        /\ target_b = U32(BASELINE + RoundedProduct(bias))

\* C7 as amended: the thresholds are 1000 - t + jitter and 1000 + t as
\* uint32_t values, t being the single-precision product bias*500 truncated
\* toward zero, jitter in 0..4.
C7_TargetsTruncated ==
    pc # "idle" =>
        LET t == AsInt32(target_b) - BASELINE
        IN  /\ cpu_jitter \in 0..4
            /\ IsTruncationOf(t, FloatMul500(bias))
            /\ target_b = U32(BASELINE + t)
            /\ target_a = U32(BASELINE - t + cpu_jitter)

C7_Witness ==
    /\ pc = "loop"
    /\ bias = F(1, -9)
    /\ cpu_jitter = 4
    /\ target_a = U32(1004)
    /\ target_b = U32(1000)

\* C8: two arrivals recorded by the same poll carry the same elapsed time and
\* end the loop; equal markers give winner A with delta 0, and B wins only
\* with arrival_b strictly below arrival_a.
C8_TieGoesToA ==
    /\ [][(arrival_a' # arrival_a /\ arrival_b' # arrival_b) =>
              (arrival_a' = current' /\ arrival_b' = current' /\ pc' = "exit")]_vars
    /\ [](pc = "done" =>
              /\ arrival_a = arrival_b => (result.winner = A /\ result.delta = 0)
              /\ result.winner = B => arrival_b < arrival_a)

C8_Witness ==
    /\ pc = "done"
    /\ cross_a = cross_b
    /\ cross_a # None
    /\ arrival_a = arrival_b
    /\ arrival_a > 0
    /\ result.winner = A

\* C9: with 0 < target_a <= target_b <= 5000 the result is winner A, latency
\* the first reading at or above target_a, delta the first reading at or above
\* target_b minus that latency.
C9_LowerThresholdAWins ==
    (/\ pc = "done"
     /\ Small(target_a) /\ Small(target_b)
     /\ 0 < U32Val(target_a)
     /\ U32Val(target_a) <= U32Val(target_b)
     /\ U32Val(target_b) <= TIMEOUT) =>
        /\ cross_a # None
        /\ cross_b # None
        /\ result.winner = A
        /\ result.latency = cross_a
        /\ result.delta = cross_b - cross_a

C9_Witness ==
    /\ pc = "done"
    /\ bias = F(1, -1)
    /\ cpu_jitter = 0
    /\ target_a = U32(750)
    /\ target_b = U32(1250)
    /\ result = [winner |-> A, latency |-> 750, delta |-> 500]

\* C10 as claimed: with bias 0 and entropy sample 3 the winner is B.
C10_BWinsAtJitter3 ==
    (pc = "done" /\ bias = F(0, 0) /\ cpu_jitter = 3) =>
        /\ target_a = U32(1003)
        /\ target_b = U32(1000)
        /\ result.winner = B

\* C10 as amended: with bias 0 and entropy sample 3 the thresholds are 1003
\* and 1000, and the winner is B exactly when some poll read an elapsed time
\* in 1000..1002; otherwise both arrive at the same poll and A wins, delta 0.
C10_BWinsIffWindowSampled ==
    (pc = "done" /\ bias = F(0, 0) /\ cpu_jitter = 3) =>
        /\ target_a = U32(1003)
        /\ target_b = U32(1000)
        /\ result.winner = B <=> (cross_b # None /\ cross_b < 1003)
        /\ result.winner = A => result.delta = 0

C10_Witness ==
    /\ pc = "done"
    /\ bias = F(0, 0)
    /\ cpu_jitter = 3
    /\ result.winner = B
    /\ result.latency = 1002

-----------------------------------------------------------------------------
(* C15, C17, C18: the arrival markers. *)

\* |bias| <= 1 for the float bias = [m, e].
AbsBiasAtMostOne ==
    IF bias.e >= 0 THEN Abs(bias.m) * (2^bias.e) <= 1
    ELSE Abs(bias.m) <= 2^(-bias.e)

\* C15: a path that has crossed its threshold holds, as its arrival time, the
\* reading of the first poll at which current >= target, a first crossing at
\* elapsed time 0 included.
C15_ArrivalIsFirstCrossing ==
    /\ cross_a # None => arrival_a = cross_a
    /\ cross_b # None => arrival_b = cross_b

\* C17: for |bias| <= 1 the loop is left with both markers nonzero, also when
\* it is left by the timeout poll, and the latency is at least the smaller
\* threshold, which is at least 500: the confidence 1000 / latency divides by
\* a positive number.
C17_BothArriveWithinUnitBias ==
    (pc \in {"exit", "done"} /\ AbsBiasAtMostOne) =>
        /\ arrival_a # 0
        /\ arrival_b # 0
        /\ Small(target_a) /\ Small(target_b)
        /\ Min(U32Val(target_a), U32Val(target_b)) >= 500
        /\ pc = "done" =>
               /\ result.latency >= Min(U32Val(target_a), U32Val(target_b))
               /\ result.latency > 0

C17_Witness ==
    /\ pc = "done"
    /\ bias = F(15938355, -24)
    /\ current > TIMEOUT
    /\ arrival_a < current
    /\ arrival_b = current
    /\ result.latency = arrival_a

\* C18: a nonzero marker is not changed by any later poll, and it is at least
\* its path's threshold and at most the latest polled elapsed time.
C18_MarkersWriteOnce ==
    /\ [][/\ (pc = "loop" /\ arrival_a # 0) => arrival_a' = arrival_a
          /\ (pc = "loop" /\ arrival_b # 0) => arrival_b' = arrival_b]_vars
    /\ [](/\ arrival_a # 0 => (GeI64U32(arrival_a, target_a) /\ arrival_a <= current)
          /\ arrival_b # 0 => (GeI64U32(arrival_b, target_b) /\ arrival_b <= current))

C18_Witness ==
    /\ pc = "loop"
    /\ arrival_a # 0
    /\ arrival_b = 0
    /\ arrival_a < current

-----------------------------------------------------------------------------
(* C12: the order of the two arrival checks. *)

\* C12: the loop that tests B before A holds, after every poll, the same
\* markers as the loop that tests A before B, leaves the loop at the same
\* poll and returns the same (winner, latency, delta).
C12_ScanOrderIrrelevant ==
    /\ [](/\ alt_pc = pc
          /\ alt = Markers(arrival_a, arrival_b)
          /\ alt_result = result)
    /\ [][pc = "loop" =>
             LET m == Markers(arrival_a, arrival_b)
             IN  /\ ScanAB(m, current', target_a, target_b)
                       = ScanBA(m, current', target_a, target_b)
                 /\ ScanAB(m, current', target_a, target_b)
                       = Markers(arrival_a', arrival_b')]_allvars

C12_Witness ==
    /\ pc = "done"
    /\ alt_pc = "done"
    /\ arrival_a = arrival_b
    /\ arrival_a > 0
    /\ alt_result = [winner |-> A, latency |-> arrival_a, delta |-> 0]

-----------------------------------------------------------------------------
(* C11: determinism of repeated calls. *)

\* The running call is the second one and was given the bias and the entropy
\* sample of the first.
SecondCallSameInputs ==
    /\ seq_phase = "second"
    /\ pc # "idle"
    /\ bias = seq_first.bias
    /\ cpu_jitter = seq_first.jitter

\* C11: a second call with the bias, the entropy sample and the scripted clock
\* readings of the first leaves the loop after the same number of polls and
\* returns the same (winner, latency, delta), whatever the first call left
\* behind.
C11_RepeatedCallSameOutcome ==
    SecondCallSameInputs =>
        /\ pc = "loop" => seq_polls < seq_first.polls
        /\ pc \in {"exit", "done"} => seq_polls = seq_first.polls
        /\ pc = "done" => result = seq_first.result

\* A second call that polled several times and won with B after a first call
\* that did the same.
C11_Witness ==
    /\ SecondCallSameInputs
    /\ pc = "done"
    /\ seq_polls >= 3
    /\ seq_polls = seq_first.polls
    /\ result = seq_first.result
    /\ result.winner = B
    /\ result.delta > 0

-----------------------------------------------------------------------------
(* C13: concurrent invocations. *)

\* C13: two invocations with interleaved polls share no mutable state: a step
\* of one leaves the start time, thresholds, arrival markers and result of
\* the other unchanged, and each one's position, locals and result are those
\* of the same invocation run alone on the clock readings it observed.
C13_InvocationsIndependent ==
    /\ [](\A i \in Invocations :
             conc_pc[i] # "idle" =>
                 /\ conc_pc[i] = conc_ref[i].pc
                 /\ conc[Frame(i)].start = conc_ref[i].start
                 /\ conc[Frame(i)].target_a = conc_ref[i].target_a
                 /\ conc[Frame(i)].target_b = conc_ref[i].target_b
                 /\ Markers(conc[Frame(i)].arrival_a, conc[Frame(i)].arrival_b) = conc_ref[i].m
                 /\ conc_out[i] = conc_ref[i].result)
    /\ [][\A i \in Invocations :
              conc_actor' # i =>
                  /\ conc'[Frame(i)] = conc[Frame(i)]
                  /\ conc_out'[i] = conc_out[i]]_allvars

\* Both invocations returned, the second was started while the first was
\* racing, the latest step was taken by the first, and the results differ.
C13_Witness ==
    /\ conc_pc[1] = "done"
    /\ conc_pc[2] = "done"
    /\ conc_actor = 1
    /\ conc[1].start < conc[2].start
    /\ conc[2].start < conc[1].start + conc_out[1].latency
    /\ conc_out[1].winner = B
    /\ conc_out[2].winner = A
    /\ conc_out[1].latency # conc_out[2].latency

-----------------------------------------------------------------------------
(* C14: the noise task. *)

\* The state of the race engine: position, inputs, thresholds, start time,
\* arrival markers, result.
engine ==
    <<pc, bias, cpu_jitter, target_a, target_b, start, current,
      arrival_a, arrival_b, result>>

\* C14: a step of the noise task leaves the race engine's state unchanged,
\* and a race interleaved with steps of the task has the position, the
\* arrival markers and the result of the race without the task on the same
\* clock readings.
C14_NoiseLeavesRaceAlone ==
    /\ [][<<noise_pc, noise_i, dummy, noise_round>>' # <<noise_pc, noise_i, dummy, noise_round>>
             => engine' = engine]_allvars
    /\ [](pc # "idle" =>
             /\ pc = quiet.pc
             /\ start = quiet.start
             /\ target_a = quiet.target_a
             /\ target_b = quiet.target_b
             /\ Markers(arrival_a, arrival_b) = quiet.m
             /\ result = quiet.result)

\* A race that returned a B win after the task worked between its polls and
\* went through a whole pass of its loop.
C14_Witness ==
    /\ pc = "done"
    /\ noise_mid
    /\ noise_round >= 1
    /\ dummy > NOISE_TERMS
    /\ result.winner = B
    /\ result = quiet.result

-----------------------------------------------------------------------------
(* C16: the driver. *)

Total(count) == count[1] + count[2] + count[3] + count[4] + count[5]

\* C16: app_main creates the noise task and prints the header before any
\* record; it calls run_symmetric_race once per record, RACES_PER_BIAS times
\* for each entry of test_biases in the order of the list, every record of
\* one bias before the first of the next; DONE comes after the last of the
\* NUM_BIASES * RACES_PER_BIAS records, and it does come.
C16_DriverSweep ==
    /\ [](/\ test_biases = <<F(0, 0), F(1, -2), F(1, -1), F(3, -2), F(15938355, -24)>>
          /\ (Total(calls) > 0 => (noise_pc = "run" /\ printed.header))
          /\ \A k \in 1..NUM_BIASES :
                /\ printed.records[k] <= calls[k]
                /\ calls[k] <= printed.records[k] + 1
                /\ calls[k] <= RACES_PER_BIAS
                /\ (calls[k] > 0 =>
                       \A j \in 1..(k - 1) : printed.records[j] = RACES_PER_BIAS)
          /\ (printed.done =>
                /\ \A k \in 1..NUM_BIASES :
                       calls[k] = RACES_PER_BIAS /\ printed.records[k] = RACES_PER_BIAS
                /\ Total(printed.records) = 500))
    /\ [][/\ (printed.records' # printed.records =>
                /\ pc = "done"
                /\ bias = test_biases[drv_b + 1]
                /\ printed'.last = [bias |-> bias, result |-> result]
                /\ printed'.records = [printed.records EXCEPT ![drv_b + 1] = @ + 1])
           /\ (printed.done => printed' = printed)]_allvars
    /\ <>printed.done

\* DONE has been printed after 100 records of each bias, the last one a win
\* of A at bias 0.95.
C16_Witness ==
    /\ drv_pc = "halt"
    /\ printed.done
    /\ noise_pc = "run"
    /\ \A k \in 1..NUM_BIASES : printed.records[k] = 100 /\ calls[k] = 100
    /\ printed.last.bias = F(15938355, -24)
    /\ printed.last.result.winner = A
    /\ printed.last.result.delta > 0

=============================================================================
